---- MODULE Spec2Model ----
(***************************************************************************)
(* Model of src/main.rs of ModuleConfig: main's loop over the module paths *)
(* and get_modinfo_from_file, which gunzips a kernel module, opens it as   *)
(* an ELF image, takes the .modinfo section, splits it on NUL bytes and    *)
(* folds the key=value records into a ModInfo.                             *)
(*                                                                         *)
(* A Rust String is a TLA+ string.  The section data is a Vec<u8>: a       *)
(* sequence of bytes, a byte being a one-character string, the NUL byte or *)
(* a byte that is not valid UTF-8.  A panic ends the process.              *)
(*                                                                         *)
(* The model starts at main's loop over the paths get_module_paths gave;   *)
(* the listing of the loaded modules before it is left out.  The files are *)
(* readable: of lines 74-81 the failure modelled is the gzip stream's.     *)
(***************************************************************************)
EXTENDS Integers, Sequences, FiniteSets, TLC

VARIABLES files, idx, pc, records, pos, result, ret, stdout, panicked

vars == <<files, idx, pc, records, pos, result, ret, stdout, panicked>>

(***************************************************************************)
(* Bounds of the model.                                                    *)
(***************************************************************************)
MaxRecords == 3
MaxFiles == 2

(***************************************************************************)
(* Bytes.                                                                  *)
(***************************************************************************)
NUL == "<00>"
BadByte == "<FF>"

\* the bytes of a string
Bytes(s) == [i \in 1..Len(s) |-> SubSeq(s, i, i)]

(***************************************************************************)
(* Option and Result.                                                      *)
(***************************************************************************)
None == [some |-> FALSE]
Some(v) == [some |-> TRUE, v |-> v]

Ok(v) == [tag |-> "Ok", val |-> v]
Err(e) == [tag |-> "Err", err |-> e]
NoRet == [tag |-> "none"]

(***************************************************************************)
(* The string and slice functions of the standard library the code calls.  *)
(***************************************************************************)
\* str::starts_with
StartsWith(s, p) == Len(s) >= Len(p) /\ SubSeq(s, 1, Len(p)) = p

\* &s[n..]
SliceFrom(s, n) == SubSeq(s, n + 1, Len(s))

\* str::find of a one-character pattern: the offset of its first occurrence
Find(s, c) ==
    LET I == {i \in 1..Len(s) : SubSeq(s, i, i) = c}
    IN  IF I = {} THEN None
        ELSE Some((CHOOSE i \in I : \A j \in I : i <= j) - 1)

\* str::split_at
SplitAt(s, n) == <<SubSeq(s, 1, n), SliceFrom(s, n)>>

RECURSIVE StrSplit(_, _)
\* str::split of a one-character pattern: the pieces between the
\* occurrences, the empty ones included; the empty string gives one piece
StrSplit(s, c) ==
    LET f == Find(s, c)
    IN  IF ~f.some THEN <<s>>
        ELSE <<SubSeq(s, 1, f.v)>> \o StrSplit(SliceFrom(s, f.v + 1), c)

RECURSIVE SliceSplit(_)
\* slice::split(|chr| *chr == 0)
SliceSplit(data) ==
    LET I == {i \in 1..Len(data) : data[i] = NUL}
    IN  IF I = {} THEN <<data>>
        ELSE LET k == CHOOSE i \in I : \A j \in I : i <= j
             IN  <<SubSeq(data, 1, k - 1)>>
                     \o SliceSplit(SubSeq(data, k + 1, Len(data)))

RECURSIVE Concat(_)
Concat(bs) == IF bs = <<>> THEN "" ELSE Head(bs) \o Concat(Tail(bs))

\* String::from_utf8
FromUtf8(bs) ==
    IF \E i \in 1..Len(bs) : bs[i] = BadByte THEN None ELSE Some(Concat(bs))

(***************************************************************************)
(* ModInfo and ModuleParameter.                                            *)
(***************************************************************************)
ModuleParameter(n, d, k) == [name |-> n, description |-> d, kind |-> k]

\* ModInfo::default()
ModInfoDefault ==
    [license |-> "", parameters |-> <<>>, alias |-> <<>>,
     dependencies |-> <<>>, description |-> "", authors |-> <<>>,
     vermagic |-> "", intree |-> FALSE, firewares |-> <<>>]

\* HashMap::insert
Insert(m, k, v) == [x \in DOMAIN m \cup {k} |-> IF x = k THEN v ELSE m[x]]

(***************************************************************************)
(* The branches of the loop body.  Each gives the outcome of one entry:    *)
(* the panic it raises ("none" when it raises none), the ModInfo after it  *)
(* and the lines it prints.                                                *)
(***************************************************************************)
Done(r) == [panic |-> "none", result |-> r, out |-> <<>>]
Panic(why, r) == [panic |-> why, result |-> r, out |-> <<>>]

OnParm(r, entry) ==
    LET tmp == SliceFrom(entry, Len("parm="))
        at == Find(tmp, ":")
    IN  IF ~at.some THEN Panic("parm_unwrap", r)
        ELSE LET name == SplitAt(tmp, at.v)[1]
                 description == SplitAt(tmp, at.v)[2]
             IN  Done([r EXCEPT !.parameters =
                          Insert(@, name,
                              ModuleParameter(name, SliceFrom(description, 1), ""))])

OnParmtype(r, entry) ==
    LET tmp == SliceFrom(entry, Len("parmtype="))
        split == StrSplit(tmp, ":")
    IN  IF split[1] \in DOMAIN r.parameters
        THEN IF Len(split) < 2 THEN Panic("parmtype_unwrap", r)
             ELSE Done([r EXCEPT !.parameters[split[1]].kind = split[2]])
        ELSE Done(r)

\* OnLicense keeping the first license instead of the last
OnLicenseFirstWins(r, entry) ==
    Done(IF r.license = ""
         THEN [r EXCEPT !.license = SliceFrom(entry, Len("license="))]
         ELSE r)

OnLicense(r, entry) ==
    Done([r EXCEPT !.license = SliceFrom(entry, Len("license="))])

OnAlias(r, entry) ==
    Done([r EXCEPT !.alias = Append(@, SliceFrom(entry, Len("alias=")))])

OnDepends(r, entry) ==
    Done([r EXCEPT !.dependencies =
             @ \o StrSplit(SliceFrom(entry, Len("depends=")), ",")])

OnDescription(r, entry) ==
    Done([r EXCEPT !.description = SliceFrom(entry, Len("description="))])

OnAuthor(r, entry) ==
    Done([r EXCEPT !.authors = Append(@, SliceFrom(entry, Len("author=")))])

OnVermagic(r, entry) ==
    Done([r EXCEPT !.vermagic = SliceFrom(entry, Len("vermagic="))])

\* OnIntree comparing without regard to case
OnIntreeAnyCase(r, entry) ==
    Done([r EXCEPT !.intree = (SliceFrom(entry, Len("intree=")) \in {"Y", "y"})])

OnIntree(r, entry) ==
    Done([r EXCEPT !.intree = (SliceFrom(entry, Len("intree=")) = "Y")])

\* OnFirmware cutting one byte less than the prefix
OnFirmwareShortCut(r, entry) ==
    Done([r EXCEPT !.firewares = Append(@, SliceFrom(entry, Len("firmware")))])

OnFirmware(r, entry) ==
    Done([r EXCEPT !.firewares = Append(@, SliceFrom(entry, Len("fireware=")))])

\* TodoPrefixes without the softdep= branch
TodoPrefixesNoSoftdep ==
    {"version=", "srcversion=", "staging=", "release_date="}

\* the prefixes whose branch is empty
TodoPrefixes ==
    {"version=", "srcversion=", "staging=", "release_date=", "softdep="}

OnUnmatched(r, path, entry) ==
    [panic |-> "none", result |-> r, out |-> <<<<"Unmatched", path, entry>>>>]

\* the if / else if chain on one decoded entry
Dispatch(r, path, entry) ==
    IF StartsWith(entry, "parm=") THEN OnParm(r, entry)
    ELSE IF StartsWith(entry, "parmtype=") THEN OnParmtype(r, entry)
    ELSE IF StartsWith(entry, "license=") THEN OnLicense(r, entry)
    ELSE IF StartsWith(entry, "alias=") THEN OnAlias(r, entry)
    ELSE IF StartsWith(entry, "depends=") THEN OnDepends(r, entry)
    ELSE IF StartsWith(entry, "description=") THEN OnDescription(r, entry)
    ELSE IF StartsWith(entry, "author=") THEN OnAuthor(r, entry)
    ELSE IF StartsWith(entry, "vermagic=") THEN OnVermagic(r, entry)
    ELSE IF StartsWith(entry, "intree=") THEN OnIntree(r, entry)
    ELSE IF StartsWith(entry, "firmware=") THEN OnFirmware(r, entry)
    ELSE IF \E p \in TodoPrefixes : StartsWith(entry, p) THEN Done(r)
    ELSE IF entry = "" THEN Done(r)
    ELSE OnUnmatched(r, path, entry)

\* the loop body on one piece of the section data
ProcessEntry(r, path, one) ==
    LET entry == FromUtf8(one)
    IN  IF ~entry.some THEN Panic("from_utf8_unwrap", r)
        ELSE Dispatch(r, path, entry.v)

(***************************************************************************)
(* The files on disk: what get_module_paths found and what each holds.     *)
(***************************************************************************)
BadGzip == [kind |-> "bad_gzip", data |-> <<>>]
BadElf == [kind |-> "bad_elf", data |-> <<>>]
NoModinfo == [kind |-> "no_modinfo", data |-> <<>>]
WithModinfo(data) == [kind |-> "modinfo", data |-> data]

\* a .modinfo section: NUL-terminated records
RECURSIVE Section(_)
Section(rs) ==
    IF rs = <<>> THEN <<>> ELSE Head(rs) \o <<NUL>> \o Section(Tail(rs))

PathOf(i) == "/lib/modules/r/m" \o ToString(i) \o ".ko.gz"

\* the record streams of at most MaxRecords records of a pool
Streams(pool) == UNION {[1..n -> pool] : n \in 0..MaxRecords}

\* what a module file may hold, its .modinfo records drawn from a pool
Contents(pool) ==
    {BadGzip, BadElf, NoModinfo}
        \cup {WithModinfo(Section(rs)) : rs \in Streams(pool)}

path == files[idx].path
content == files[idx].content

InitOver(contents, nfiles) ==
    /\ files \in UNION {{[i \in 1..n |-> [path |-> PathOf(i), content |-> c[i]]] :
                             c \in [1..n -> contents]} : n \in 1..nfiles}
    /\ idx = 0
    /\ pc = "main"
    /\ records = <<>>
    /\ pos = 0
    /\ result = ModInfoDefault
    /\ ret = NoRet
    /\ stdout = <<>>
    /\ panicked = "none"

(***************************************************************************)
(* The steps of main and of get_modinfo_from_file.                         *)
(***************************************************************************)
\* for module_path in get_module_paths(): the next path
NextPath ==
    /\ pc = "main"
    /\ idx < Len(files)
    /\ idx' = idx + 1
    /\ pc' = "gunzip"
    /\ ret' = NoRet
    /\ UNCHANGED <<files, records, pos, result, stdout, panicked>>

\* the loop over the paths ends and main returns
MainExit ==
    /\ pc = "main"
    /\ idx = Len(files)
    /\ pc' = "exit"
    /\ UNCHANGED <<files, idx, records, pos, result, ret, stdout, panicked>>

\* read the file and gunzip it; every failure is an unwrap of an Err
Gunzip ==
    /\ pc = "gunzip"
    /\ IF content.kind = "bad_gzip"
       THEN pc' = "panicked" /\ panicked' = "gunzip_unwrap"
       ELSE pc' = "elf" /\ UNCHANGED panicked
    /\ UNCHANGED <<files, idx, records, pos, result, ret, stdout>>

\* elf::File::open_stream
OpenStream ==
    /\ pc = "elf"
    /\ IF content.kind = "bad_elf"
       THEN pc' = "panicked" /\ panicked' = "elf_panic"
       ELSE pc' = "section" /\ UNCHANGED panicked
    /\ UNCHANGED <<files, idx, records, pos, result, ret, stdout>>

\* file.get_section(".modinfo")
GetSection ==
    /\ pc = "section"
    /\ IF content.kind = "no_modinfo"
       THEN /\ ret' = Err("Cannot find .modinfo section")
            /\ pc' = "unwrap"
            /\ UNCHANGED <<records, pos, result>>
       ELSE /\ result' = ModInfoDefault
            /\ records' = SliceSplit(content.data)
            /\ pos' = 0
            /\ pc' = "loop"
            /\ UNCHANGED ret
    /\ UNCHANGED <<files, idx, stdout, panicked>>

\* one iteration of the loop over the pieces of the section data
ParseEntry ==
    /\ pc = "loop"
    /\ pos < Len(records)
    /\ LET o == ProcessEntry(result, path, records[pos + 1])
       IN  IF o.panic # "none"
           THEN /\ pc' = "panicked"
                /\ panicked' = o.panic
                /\ UNCHANGED <<pos, result, stdout>>
           ELSE /\ pos' = pos + 1
                /\ result' = o.result
                /\ stdout' = stdout \o o.out
                /\ UNCHANGED <<pc, panicked>>
    /\ UNCHANGED <<files, idx, records, ret>>

\* the loop ends: Ok(result)
ReturnOk ==
    /\ pc = "loop"
    /\ pos = Len(records)
    /\ ret' = Ok(result)
    /\ pc' = "unwrap"
    /\ UNCHANGED <<files, idx, records, pos, result, stdout, panicked>>

\* main: get_modinfo_from_file(module_path).unwrap()
Unwrap ==
    /\ pc = "unwrap"
    /\ IF ret.tag = "Err"
       THEN pc' = "panicked" /\ panicked' = "main_unwrap"
       ELSE pc' = "main" /\ UNCHANGED panicked
    /\ UNCHANGED <<files, idx, records, pos, result, ret, stdout>>

Next ==
    \/ NextPath
    \/ MainExit
    \/ Gunzip
    \/ OpenStream
    \/ GetSection
    \/ ParseEntry
    \/ ReturnOk
    \/ Unwrap

(***************************************************************************)
(* The inputs.  Spec runs main over up to MaxFiles module files; the       *)
(* other specifications run it over one file whose .modinfo section holds  *)
(* up to MaxRecords records of one pool.                                   *)
(***************************************************************************)
BadRecord == Bytes("alias=") \o <<BadByte>>

BatchContents ==
    {BadGzip, BadElf, NoModinfo,
     WithModinfo(<<>>),
     WithModinfo(Section(<<Bytes("license=GPL"), Bytes("author=Al")>>)),
     WithModinfo(Section(<<Bytes("license=GPL"), BadRecord>>)),
     WithModinfo(Section(<<Bytes("parm=foo")>>))}

ParmPool ==
    {Bytes("parm=foo:bar"), Bytes("parm=foo:b:c"), Bytes("parm=foo"),
     Bytes("parm=bar:"), Bytes("parmtype=foo:int"), Bytes("parmtype=foo:a:b"),
     Bytes("parmtype=foo"), Bytes("parmtype=bar:charp"), Bytes("license=GPL"),
     BadRecord}

ScalarPool ==
    {Bytes("license=GPL"), Bytes("license=MIT"), Bytes("description=d1"),
     Bytes("description="), Bytes("vermagic=v1"), Bytes("vermagic=v2"),
     Bytes("intree=Y"), Bytes("intree=y"), Bytes("intree=yes"),
     Bytes("intree="), Bytes("alias=license=X")}

ListPool ==
    {Bytes("alias=a"), Bytes("alias=b"), Bytes("author=Al"), Bytes("author=Bo"),
     Bytes("firmware=fw"), Bytes("firmware="), Bytes("depends=a,b"),
     Bytes("depends="), Bytes("depends=a,,b"), Bytes("alias=author=x")}

DiagPool ==
    {Bytes("foo=bar"), Bytes("novalue"), Bytes("parm"), <<>>,
     Bytes("version=1"), Bytes("srcversion=x"), Bytes("staging=Y"),
     Bytes("release_date=r"), Bytes("softdep=p"), Bytes("license=GPL"),
     Bytes("parm=foo:bar")}

Init == InitOver(BatchContents, MaxFiles)
InitParm == InitOver(Contents(ParmPool), 1)
InitScalar == InitOver(Contents(ScalarPool), 1)
InitList == InitOver(Contents(ListPool), 1)
InitDiag == InitOver(Contents(DiagPool), 1)

Spec == Init /\ [][Next]_vars
SpecParm == InitParm /\ [][Next]_vars
SpecScalar == InitScalar /\ [][Next]_vars
SpecList == InitList /\ [][Next]_vars
SpecDiag == InitDiag /\ [][Next]_vars

(***************************************************************************)
(* What the properties speak of: the records consumed so far, as text.     *)
(***************************************************************************)
Max(S) == CHOOSE i \in S : \A j \in S : j <= i

\* the records the loop has gone through, decoded
Texts == [i \in 1..pos |-> FromUtf8(records[i]).v]

\* the positions of the consumed records that begin with a prefix
With(prefix) == {i \in 1..pos : StartsWith(Texts[i], prefix)}

\* the text of record i after a prefix
Remainder(i, prefix) == SliceFrom(Texts[i], Len(prefix))

\* the remainder of the last record with a prefix, "" when there is none
LastRemainder(prefix) ==
    IF With(prefix) = {} THEN "" ELSE Remainder(Max(With(prefix)), prefix)

RECURSIVE RemaindersUpTo(_, _)
\* the remainders of the records with a prefix among the first n, in order
RemaindersUpTo(n, prefix) ==
    IF n = 0 THEN <<>>
    ELSE IF n \in With(prefix)
         THEN Append(RemaindersUpTo(n - 1, prefix), Remainder(n, prefix))
         ELSE RemaindersUpTo(n - 1, prefix)

\* the ModInfo in hand and, once the function has returned one, that one
Infos == {result} \cup (IF ret.tag = "Ok" THEN {ret.val} ELSE {})

Returned == pc = "unwrap" /\ ret.tag = "Ok"

\* the text of s before and after its first colon
BeforeColon(s) == SubSeq(s, 1, Find(s, ":").v)
AfterColon(s) == SliceFrom(s, Find(s, ":").v + 1)
HasColon(s) == Find(s, ":").some

(***************************************************************************)
(* C1: when every record of the section is valid text, the loop runs to    *)
(* the end of the records: the one panic the loop may raise is the one of  *)
(* a record that fails UTF-8 decoding.                                     *)
(***************************************************************************)
LoopPanics == {"from_utf8_unwrap", "parm_unwrap", "parmtype_unwrap"}

C1_OnlyUndecodableRecordAborts ==
    panicked \in LoopPanics => ~FromUtf8(records[pos + 1]).some

(***************************************************************************)
(* C2: dependencies holds exactly the non-empty pieces of the remainders   *)
(* of the depends= records, in order; it never holds the empty string.     *)
(***************************************************************************)
NonEmpty(piece) == piece # ""

RECURSIVE DependsUpTo(_)
DependsUpTo(n) ==
    IF n = 0 THEN <<>>
    ELSE IF n \in With("depends=")
         THEN DependsUpTo(n - 1)
                  \o SelectSeq(StrSplit(Remainder(n, "depends="), ","), NonEmpty)
         ELSE DependsUpTo(n - 1)

C2_DependsNonEmptyPieces ==
    \A m \in Infos :
        /\ m.dependencies = DependsUpTo(pos)
        /\ \A i \in 1..Len(m.dependencies) : m.dependencies[i] # ""

(***************************************************************************)
(* C3: a failure on one file does not end the run: when main stops, every  *)
(* path of the list has been handed to get_modinfo_from_file.              *)
(***************************************************************************)
C3_EveryPathHanded ==
    pc \in {"exit", "panicked"} => idx = Len(files)

(***************************************************************************)
(* C4: for an image with no .modinfo section get_modinfo_from_file does    *)
(* not give an error outcome and main does not fail on what it gives.      *)
(***************************************************************************)
C4_MissingSectionIsNoError ==
    (idx > 0 /\ content.kind = "no_modinfo")
        => (ret.tag # "Err" /\ pc # "panicked")

(***************************************************************************)
(* C5: a parameter NAME exists iff a parm=NAME:... record occurred; its    *)
(* kind is the kind of the last parmtype=NAME:... record after the last    *)
(* parm=NAME:... record, and empty when there is none.                     *)
(***************************************************************************)
ParmOf(n) ==
    {i \in With("parm=") : HasColon(Remainder(i, "parm="))
                               /\ BeforeColon(Remainder(i, "parm=")) = n}

ParmtypeOf(n) ==
    {i \in With("parmtype=") : HasColon(Remainder(i, "parmtype="))
                                   /\ BeforeColon(Remainder(i, "parmtype=")) = n}

ParmNames ==
    {BeforeColon(Remainder(i, "parm=")) :
        i \in {j \in With("parm=") : HasColon(Remainder(j, "parm="))}}

KindOf(n) ==
    LET after == {j \in ParmtypeOf(n) : j > Max(ParmOf(n))}
    IN  IF after = {} THEN ""
        ELSE AfterColon(Remainder(Max(after), "parmtype="))

C5_ParameterCorrelation ==
    \A m \in Infos :
        /\ DOMAIN m.parameters = ParmNames
        /\ \A n \in DOMAIN m.parameters : m.parameters[n].kind = KindOf(n)

(***************************************************************************)
(* C6: a parmtype=NAME:KIND record for a registered NAME sets the kind to  *)
(* everything after the first colon of the remainder, further colons       *)
(* included; a parm=NAME:DESCRIPTION record sets the description to        *)
(* everything after the first colon.                                       *)
(***************************************************************************)
C6_AfterFirstColon ==
    (pos > 0 /\ pc \in {"loop", "unwrap"}) =>
        /\ (/\ pos \in With("parmtype=")
            /\ HasColon(Remainder(pos, "parmtype="))
            /\ BeforeColon(Remainder(pos, "parmtype=")) \in DOMAIN result.parameters)
              => result.parameters[BeforeColon(Remainder(pos, "parmtype="))].kind
                     = AfterColon(Remainder(pos, "parmtype="))
        /\ (pos \in With("parm=") /\ HasColon(Remainder(pos, "parm=")))
              => result.parameters[BeforeColon(Remainder(pos, "parm="))].description
                     = AfterColon(Remainder(pos, "parm="))

(***************************************************************************)
(* C7: each record with an unrecognized prefix or with no = gives exactly  *)
(* one diagnostic naming the file path and the verbatim record; the empty  *)
(* records and the ignored prefixes give none; the ModInfo is the one of   *)
(* the stream with all those records removed.                              *)
(***************************************************************************)
HandledPrefixes ==
    {"parm=", "parmtype=", "license=", "alias=", "depends=", "description=",
     "author=", "vermagic=", "intree=", "firmware="}

IgnoredPrefixes ==
    {"version=", "srcversion=", "staging=", "release_date=", "softdep="}

Handled(t) == \E p \in HandledPrefixes : StartsWith(t, p)
Ignored(t) == \E p \in IgnoredPrefixes : StartsWith(t, p)
Unrecognized(t) == t # "" /\ ~Handled(t) /\ ~Ignored(t)

RECURSIVE DiagnosticsUpTo(_)
DiagnosticsUpTo(n) ==
    IF n = 0 THEN <<>>
    ELSE IF Unrecognized(Texts[n])
         THEN Append(DiagnosticsUpTo(n - 1), <<"Unmatched", path, Texts[n]>>)
         ELSE DiagnosticsUpTo(n - 1)

RECURSIVE ParseTexts(_)
\* the ModInfo of a stream of records none of which panics
ParseTexts(ts) ==
    IF ts = <<>> THEN ModInfoDefault
    ELSE Dispatch(ParseTexts(SubSeq(ts, 1, Len(ts) - 1)), "", ts[Len(ts)]).result

C7_UnrecognizedOnlyReported ==
    /\ stdout = DiagnosticsUpTo(pos)
    /\ \A m \in Infos : m = ParseTexts(SelectSeq(Texts, Handled))

C7_Witness ==
    /\ Returned
    /\ \E i, j, k \in 1..pos :
          /\ Unrecognized(Texts[i])
          /\ Ignored(Texts[j])
          /\ Handled(Texts[k])
          /\ i < k
    /\ Len(stdout) = 1
    /\ ret.val # ModInfoDefault

(***************************************************************************)
(* C8: license, description and vermagic each equal the remainder of the   *)
(* last record with their prefix, and "" when there is none.               *)
(***************************************************************************)
C8_ScalarLastWriterWins ==
    \A m \in Infos :
        /\ m.license = LastRemainder("license=")
        /\ m.description = LastRemainder("description=")
        /\ m.vermagic = LastRemainder("vermagic=")

C8_Witness ==
    /\ Returned
    /\ \E i, j \in With("license=") :
          /\ i < j
          /\ j < pos
          /\ Texts[i] # Texts[j]
          /\ ret.val.license = Remainder(j, "license=")
          /\ ret.val.license # Remainder(i, "license=")

(***************************************************************************)
(* C9: alias, authors and firewares are the exact remainders of the        *)
(* alias=, author= and firmware= records, in the order of the records,     *)
(* duplicates kept.                                                        *)
(***************************************************************************)
C9_ListsInRecordOrder ==
    \A m \in Infos :
        /\ m.alias = RemaindersUpTo(pos, "alias=")
        /\ m.authors = RemaindersUpTo(pos, "author=")
        /\ m.firewares = RemaindersUpTo(pos, "firmware=")

C9_Witness ==
    /\ Returned
    /\ ret.val.firewares = <<"fw">>
    /\ \E i, j \in With("alias=") :
          \E k \in With("firmware=") : i < k /\ k < j /\ Texts[i] = Texts[j]
    /\ Len(ret.val.alias) = 2

(***************************************************************************)
(* C10: intree is true iff the remainder of the last intree= record is     *)
(* exactly "Y"; it is false when there is no such record.                  *)
(***************************************************************************)
C10_IntreeExactlyY ==
    \A m \in Infos :
        m.intree = (With("intree=") # {} /\ LastRemainder("intree=") = "Y")

C10_Witness ==
    /\ Returned
    /\ \E i, j \in With("intree=") :
          /\ i < j
          /\ Remainder(i, "intree=") = "Y"
          /\ Remainder(j, "intree=") = "y"
    /\ ret.val.intree = FALSE

====
